---- MODULE Spec2Model ----
(***************************************************************************)
(* A model of src/bindgen/bindings.rs: the Bindings engine that resolves   *)
(* typedef chains, merges struct field names, renders the declaration      *)
(* file, writes it if changed and generates the dependency file.           *)
(***************************************************************************)
EXTENDS Integers, Sequences, FiniteSets, TLC

VARIABLES
    \* the fields of Bindings, fixed by Bindings::new
    config, struct_map, typedef_map, globals, constants, items, functions,
    source_files, noop, package_version,
    \* the one mutable field of Bindings
    struct_fileds_memo,
    \* the environment: the file system and the sink handed to write
    fs, out,
    \* the call in progress: its position, operation, argument, locals and result
    pc, op, arg, resolved_path, new_file_contents, ret,
    \* the file-system calls made so far, each with the file system it found
    history

inputs == <<config, struct_map, typedef_map, globals, constants, items, functions,
            source_files, noop, package_version>>

vars == <<config, struct_map, typedef_map, globals, constants, items, functions,
          source_files, noop, package_version, struct_fileds_memo, fs, out,
          pc, op, arg, resolved_path, new_file_contents, ret, history>>

(***************************************************************************)
(* Bounds of the model.                                                    *)
(***************************************************************************)
\* typedef definitions in the whole typedef map
MaxTypedefs == 2
\* struct definitions in the whole struct map (alias specification)
MaxStructs == 2
\* struct instantiations bound to one path (field-name specification)
MaxInst == 2
\* constants, items, globals and functions together (body specification)
MaxDecls == 3
\* extra namespaces of the configuration (namespace specification)
MaxNamespaces == 2
\* source files of the engine (dependency-file specification)
MaxSources == 2
\* write_to_file and generate_depfile calls in one run
MaxCalls == 2

None == "None"

Paths == {"A", "B", "C"}

Fields == {"x", "y", "z"}

SeqsUpTo(S, n) == UNION {[1..k -> S] : k \in 0..n}

RECURSIVE SumLen(_, _)
SumLen(m, D) ==
    IF D = {} THEN 0
    ELSE LET p == CHOOSE q \in D : TRUE
         IN Len(m[p]) + SumLen(m, D \ {p})

Max(S) == CHOOSE x \in S : \A y \in S : y <= x

Reverse(s) == [i \in 1..Len(s) |-> s[Len(s) + 1 - i]]

(***************************************************************************)
(* The IR the resolver reads.  A typedef aliases a type, which is a bare   *)
(* named type (Type::Path) or anything else; a struct has a transparency   *)
(* mark and a field list.  An ItemMap binds each path to the items         *)
(* defined under it, in discovery order.                                   *)
(***************************************************************************)
TypePath(p) == [tag |-> "Path", path |-> p]

TypeOther == [tag |-> "Other", path |-> None]

Typedefs == {[aliased |-> t] : t \in {TypePath(p) : p \in Paths} \cup {TypeOther}}

\* the field lists of a struct: field names are distinct within one struct
FieldLists == {f \in SeqsUpTo(Fields, Cardinality(Fields)) :
                 \A i, j \in 1..Len(f) : f[i] = f[j] => i = j}

Struct(t, f) == [is_transparent |-> t, fields |-> f]

\* ItemMap::for_items visits the items bound to the path, in order
for_items(map, path) == map[path]

(***************************************************************************)
(* Bindings::struct_is_transparent                                         *)
(***************************************************************************)
struct_is_transparent(path) ==
    \E i \in 1..Len(for_items(struct_map, path)) :
        for_items(struct_map, path)[i].is_transparent

(***************************************************************************)
(* Bindings::resolved_struct_path: one iteration of the loop.  found is    *)
(* the path aliased by the last typedef at the path that aliases a bare    *)
(* named type, or None.                                                    *)
(***************************************************************************)
\* a resolver that forgets to peel: the loop never finds an alias
found_never(path) == None

found(path) ==
    LET tds == for_items(typedef_map, path)
        hits == {i \in 1..Len(tds) : tds[i].aliased.tag = "Path"}
    IN IF hits = {} THEN None ELSE tds[Max(hits)].aliased.path

(***************************************************************************)
(* Bindings::struct_exists, after the path is resolved                     *)
(***************************************************************************)
struct_exists_at(path) == Len(for_items(struct_map, path)) > 0

(***************************************************************************)
(* Bindings::struct_field_names: the merge of the field lists.  pos is the *)
(* insertion cursor, counted from 0 as in the code.                        *)
(***************************************************************************)
\* fields.iter().position(..): Some(found_pos) is a one-element sequence, None is <<>>
position(fields, name) ==
    LET hits == {i \in 1..Len(fields) : fields[i] = name}
    IN IF hits = {} THEN <<>> ELSE <<(CHOOSE i \in hits : \A j \in hits : i <= j) - 1>>

insert(fields, pos, name) ==
    SubSeq(fields, 1, pos) \o <<name>> \o SubSeq(fields, pos + 1, Len(fields))

\* a merge that pushes an absent field at the end instead of at the cursor
merge_field_append(acc, name) ==
    IF position(acc.fields, name) # <<>>
    THEN [fields |-> acc.fields, pos |-> position(acc.fields, name)[1] + 1]
    ELSE [fields |-> Append(acc.fields, name), pos |-> acc.pos + 1]

merge_field(acc, name) ==
    IF position(acc.fields, name) # <<>>
    THEN [fields |-> acc.fields, pos |-> position(acc.fields, name)[1] + 1]
    ELSE [fields |-> insert(acc.fields, acc.pos, name), pos |-> acc.pos + 1]

RECURSIVE merge_struct(_, _, _)
merge_struct(acc, st_fields, i) ==
    IF i > Len(st_fields) THEN acc
    ELSE merge_struct(merge_field(acc, st_fields[i]), st_fields, i + 1)

RECURSIVE merge_all(_, _, _)
merge_all(fields, structs, k) ==
    IF k > Len(structs) THEN fields
    ELSE merge_all(merge_struct([fields |-> fields, pos |-> 0], structs[k].fields, 1).fields,
                   structs, k + 1)

merged_field_names(path) == merge_all(<<>>, for_items(struct_map, path), 1)

(***************************************************************************)
(* The rendered output.  The sink receives a sequence of tokens, one per   *)
(* statement or declaration written: <<kind, text, id>>.  The layout that  *)
(* SourceWriter adds (blank lines, indentation) is not part of a token.    *)
(* An Option is a sequence of no or one element.                           *)
(***************************************************************************)
Line(text) == <<"line", text, 0>>

Tok(kind, text) == <<kind, text, 0>>

Decl(kind, id) == <<kind, "", id>>

RECURSIVE Flatten(_)
Flatten(ss) == IF ss = <<>> THEN <<>> ELSE Head(ss) \o Flatten(Tail(ss))

OnlyIf(cond, toks) == IF cond THEN toks ELSE <<>>

IsSome(o) == o # <<>>

(***************************************************************************)
(* Bindings::write_headers                                                 *)
(***************************************************************************)
includes_skipped ==
    /\ config.no_includes
    /\ config.sys_includes = <<>>
    /\ config.includes = <<>>
    /\ (config.cimports = <<>> \/ config.language # "Cython")
    /\ ~IsSome(config.after_includes)

std_includes ==
    CASE config.language = "C" ->
           <<Line("#include <stdarg.h>"), Line("#include <stdbool.h>")>>
           \o OnlyIf(config.usize_is_size_t, <<Line("#include <stddef.h>")>>)
           \o <<Line("#include <stdint.h>"), Line("#include <stdlib.h>")>>
      [] config.language = "Cxx" ->
           <<Line("#include <cstdarg>")>>
           \o OnlyIf(config.usize_is_size_t, <<Line("#include <cstddef>")>>)
           \o <<Line("#include <cstdint>"), Line("#include <cstdlib>"),
                Line("#include <ostream>"), Line("#include <new>")>>
           \o OnlyIf(/\ ~IsSome(config.cast_assert_name)
                     /\ (config.derive_mut_casts \/ config.derive_const_casts),
                     <<Line("#include <cassert>")>>)
      [] config.language = "Cython" ->
           <<Line("from libc.stdint cimport int8_t, int16_t, int32_t, int64_t, intptr_t"),
             Line("from libc.stdint cimport uint8_t, uint16_t, uint32_t, uint64_t, uintptr_t"),
             Tok("cdef extern from", "*"), Line("open_brace"),
             Line("ctypedef bint bool"), Line("ctypedef struct va_list"),
             Line("close_brace")>>

write_headers ==
    IF noop THEN <<>>
    ELSE
      OnlyIf(IsSome(config.header), <<Tok("verbatim", config.header[1])>>)
      \o OnlyIf(IsSome(config.include_guard),
                <<Tok("#ifndef", config.include_guard[1]),
                  Tok("#define", config.include_guard[1])>>)
      \o OnlyIf(config.package_version, <<Tok("/* Package version */", package_version)>>)
      \o OnlyIf(config.pragma_once /\ config.language # "Cython", <<Line("#pragma once")>>)
      \o OnlyIf(config.include_version, <<Line("/* Generated with cbindgen */")>>)
      \o OnlyIf(IsSome(config.autogen_warning), <<Tok("verbatim", config.autogen_warning[1])>>)
      \o OnlyIf(~includes_skipped,
                OnlyIf(~config.no_includes, std_includes)
                \o [i \in DOMAIN config.sys_includes |-> Tok("#include <>", config.sys_includes[i])]
                \o [i \in DOMAIN config.includes |-> Tok("#include \"\"", config.includes[i])]
                \o OnlyIf(config.language = "Cython",
                          [i \in DOMAIN config.cimports |-> Tok("cimport", config.cimports[i])])
                \o OnlyIf(IsSome(config.after_includes),
                          <<Tok("verbatim", config.after_includes[1])>>))

(***************************************************************************)
(* Bindings::all_namespaces and Bindings::open_close_namespaces            *)
(***************************************************************************)
all_namespaces ==
    IF config.language # "Cxx" /\ ~config.cpp_compatible_c THEN <<>>
    ELSE config.namespace
         \o (IF IsSome(config.namespaces) THEN config.namespaces[1] ELSE <<>>)

\* a Close that forgets namespaces.reverse()
open_close_namespaces_unreversed(operation) ==
    IF config.language = "Cython"
    THEN IF operation = "Open"
         THEN <<Tok("cdef extern from",
                    IF IsSome(config.cython_header) THEN config.cython_header[1] ELSE "*"),
                Line("open_brace")>>
         ELSE <<Line("close_brace")>>
    ELSE IF all_namespaces = <<>> THEN <<>>
    ELSE OnlyIf(config.cpp_compatible_c, <<Line("#ifdef __cplusplus")>>)
         \o [i \in DOMAIN all_namespaces |->
                IF operation = "Open" THEN Tok("namespace {", all_namespaces[i])
                ELSE Tok("} // namespace", all_namespaces[i])]
         \o OnlyIf(config.cpp_compatible_c, <<Line("#endif // __cplusplus")>>)

open_close_namespaces(operation) ==
    IF config.language = "Cython"
    THEN IF operation = "Open"
         THEN <<Tok("cdef extern from",
                    IF IsSome(config.cython_header) THEN config.cython_header[1] ELSE "*"),
                Line("open_brace")>>
         ELSE <<Line("close_brace")>>
    ELSE IF all_namespaces = <<>> THEN <<>>
    ELSE LET namespaces == IF operation = "Close" THEN Reverse(all_namespaces)
                           ELSE all_namespaces
         IN OnlyIf(config.cpp_compatible_c, <<Line("#ifdef __cplusplus")>>)
            \o [i \in DOMAIN namespaces |->
                   IF operation = "Open" THEN Tok("namespace {", namespaces[i])
                   ELSE Tok("} // namespace", namespaces[i])]
            \o OnlyIf(config.cpp_compatible_c, <<Line("#endif // __cplusplus")>>)

open_namespaces == open_close_namespaces("Open")

close_namespaces == open_close_namespaces("Close")

(***************************************************************************)
(* Bindings::write.  A constant is [id, uses_only_primitive_types], an     *)
(* item [id, kind, no_export] with no_export the Option<bool> that         *)
(* annotations().bool("no-export") returns, a global and a function [id];  *)
(* id is the place in its list (the discovery order).                      *)
(***************************************************************************)
ItemKinds == {"Enum", "Struct", "Union", "OpaqueItem", "Typedef"}

constants_out(primitive) ==
    LET chosen == SelectSeq(constants, LAMBDA c : c.uses_only_primitive_types = primitive)
    IN [i \in DOMAIN chosen |-> Decl("constant", chosen[i].id)]

items_out ==
    LET exported == SelectSeq(items, LAMBDA item :
                                ~(IF IsSome(item.no_export) THEN item.no_export[1] ELSE FALSE))
    IN [i \in DOMAIN exported |-> Decl(exported[i].kind, exported[i].id)]

globals_out == [i \in DOMAIN globals |-> Decl("global", globals[i].id)]

functions_out == [i \in DOMAIN functions |-> Decl("function", functions[i].id)]

linkage_out ==
    IF functions = <<>> /\ globals = <<>> THEN <<>>
    ELSE
      OnlyIf(config.cpp_compatible_c, <<Line("#ifdef __cplusplus")>>)
      \o OnlyIf(config.language = "Cxx" /\ IsSome(config.using_namespaces),
                [i \in DOMAIN config.using_namespaces[1] |->
                    Tok("using namespace", config.using_namespaces[1][i])])
      \o OnlyIf(config.language = "Cxx" \/ config.cpp_compatible_c,
                <<Line("extern \"C\" {")>>)
      \o OnlyIf(config.cpp_compatible_c, <<Line("#endif // __cplusplus")>>)
      \o globals_out
      \o functions_out
      \o OnlyIf(config.cpp_compatible_c, <<Line("#ifdef __cplusplus")>>)
      \o OnlyIf(config.language = "Cxx" \/ config.cpp_compatible_c,
                <<Line("} // extern \"C\"")>>)
      \o OnlyIf(config.cpp_compatible_c, <<Line("#endif // __cplusplus")>>)

pass_out ==
    OnlyIf(/\ config.language = "Cython"
           /\ globals = <<>>
           /\ constants = <<>>
           /\ items = <<>>
           /\ functions = <<>>,
           <<Line("pass")>>)

\* a body that writes every constant before the items
write_body_constants_first ==
    constants_out(TRUE) \o constants_out(FALSE) \o items_out \o linkage_out \o pass_out

write_body ==
    constants_out(TRUE) \o items_out \o constants_out(FALSE) \o linkage_out \o pass_out

write_output ==
    IF noop THEN <<>>
    ELSE write_headers
         \o open_namespaces
         \o write_body
         \o close_namespaces
         \o OnlyIf(IsSome(config.include_guard),
                   <<Tok(IF config.language = "C" THEN "#endif /* */" ELSE "#endif //",
                         config.include_guard[1])>>)
         \o OnlyIf(IsSome(config.trailer), <<Tok("verbatim", config.trailer[1])>>)

(***************************************************************************)
(* The file system: the directories that exist, each path as absent, a     *)
(* file with its contents or a directory, and the canonical path that      *)
(* canonicalize resolves each existing path to.  A path is a sequence of   *)
(* characters where its text matters, a name where it does not.            *)
(***************************************************************************)
HeaderPath == "out/bindings.h"

DepfilePath == "dep/bindings.d"

ConfigPath == "cbindgen.toml"

SourcePaths == {"src/lib.rs", "src/ffi.rs"}

FilePaths == {HeaderPath, DepfilePath, ConfigPath} \cup SourcePaths

parent(path) ==
    CASE path = HeaderPath -> "out"
      [] path = DepfilePath -> "dep"
      [] path \in SourcePaths -> "src"
      [] OTHER -> ""

Absent == [kind |-> "absent", data |-> <<>>]

File(data) == [kind |-> "file", data |-> data]

Directory == [kind |-> "dir", data |-> <<>>]

is_file(path) == fs.files[path].kind = "file"

\* Path::canonicalize: Ok(the canonical path) of a path that exists, else Err
canonicalize(path) ==
    IF fs.files[path].kind = "absent" THEN <<>> ELSE <<fs.canon[path]>>

\* the canonical paths: "/a", "/ b", "/A" and "/a b"
CanonPaths ==
    {<<"/", "a">>, <<"/", " ", "b">>, <<"/", "A">>, <<"/", "a", " ", "b">>}

CanonHeader == <<"/", "o", " ", "h">>

CanonFixed ==
    [p \in FilePaths |->
        CASE p = HeaderPath -> CanonHeader
          [] p = DepfilePath -> <<"/", "d">>
          [] p = ConfigPath -> <<"/", "A">>
          [] p = "src/lib.rs" -> <<"/", "a", " ", "b">>
          [] OTHER -> <<"/", "a">>]

EmptyFs == [dirs |-> {}, files |-> [p \in FilePaths |-> Absent], canon |-> CanonFixed]

(***************************************************************************)
(* Bindings::generate_depfile                                              *)
(***************************************************************************)
Code(c) ==
    CASE c = "\n" -> 10 [] c = " " -> 32 [] c = "/" -> 47 [] c = ":" -> 58
      [] c = "A" -> 65 [] c = "\\" -> 92 [] c = "a" -> 97 [] c = "b" -> 98
      [] c = "d" -> 100 [] c = "h" -> 104 [] c = "o" -> 111

\* the order of sort_unstable on the paths
RECURSIVE path_le(_, _)
path_le(s, t) ==
    IF s = <<>> THEN TRUE
    ELSE IF t = <<>> THEN FALSE
    ELSE IF Code(Head(s)) # Code(Head(t)) THEN Code(Head(s)) < Code(Head(t))
    ELSE path_le(Tail(s), Tail(t))

RECURSIVE sort_insert(_, _)
sort_insert(sorted, e) ==
    IF sorted = <<>> THEN <<e>>
    ELSE IF path_le(e, Head(sorted)) THEN <<e>> \o sorted
    ELSE <<Head(sorted)>> \o sort_insert(Tail(sorted), e)

RECURSIVE sort_unstable(_)
sort_unstable(paths) ==
    IF paths = <<>> THEN <<>>
    ELSE sort_insert(sort_unstable(Tail(paths)), Head(paths))

\* replace(' ', "\\ ")
escape(path) ==
    Flatten([i \in DOMAIN path |-> IF path[i] = " " THEN <<"\\", " ">> ELSE <<path[i]>>])

\* source_files.iter().chain(config.config_path.as_ref())
depfile_inputs == source_files \o config.config_path

\* a generator that forgets the sort
canon_source_files_unsorted ==
    [i \in DOMAIN depfile_inputs |-> canonicalize(depfile_inputs[i])[1]]

canon_source_files ==
    sort_unstable([i \in DOMAIN depfile_inputs |-> canonicalize(depfile_inputs[i])[1]])

depfile_contents(header_path) ==
    escape(canonicalize(header_path)[1]) \o <<":">>
    \o Flatten([i \in DOMAIN canon_source_files |->
                   <<" ", "\\", "\n", " ", " ", " ", " ">> \o escape(canon_source_files[i])])
    \o <<"\n">>

(***************************************************************************)
(* The values the other specifications hold fixed.                         *)
(***************************************************************************)
DefaultConfig ==
    [language |-> "C", cpp_compatible_c |-> FALSE,
     namespace |-> <<>>, namespaces |-> <<>>, using_namespaces |-> <<>>,
     cython_header |-> <<>>, header |-> <<>>, include_guard |-> <<>>,
     package_version |-> FALSE, pragma_once |-> FALSE, include_version |-> FALSE,
     autogen_warning |-> <<>>, no_includes |-> FALSE, sys_includes |-> <<>>,
     includes |-> <<>>, cimports |-> <<>>, after_includes |-> <<>>,
     usize_is_size_t |-> FALSE, cast_assert_name |-> <<>>,
     derive_mut_casts |-> FALSE, derive_const_casts |-> FALSE,
     trailer |-> <<>>, config_path |-> <<>>]

\* the dialects: cpp_compatible_c is a property of the C dialect
Dialects ==
    {[language |-> "C", cpp_compatible_c |-> FALSE],
     [language |-> "C", cpp_compatible_c |-> TRUE],
     [language |-> "Cxx", cpp_compatible_c |-> FALSE],
     [language |-> "Cython", cpp_compatible_c |-> FALSE]}

NoStructs == [p \in Paths |-> <<>>]

NoTypedefs == [p \in Paths |-> <<>>]

\* the memo: Some(fields) is a one-element sequence, no entry is <<>>
EmptyMemo == [p \in Paths |-> <<>>]

Idle == pc \in {"idle", "returned"}

\* no call was made yet
InitCall ==
    /\ pc = "idle"
    /\ op = None
    /\ arg = None
    /\ resolved_path = [path |-> None, owned |-> FALSE]
    /\ new_file_contents = <<>>
    /\ ret = <<>>
    /\ history = <<>>

(***************************************************************************)
(* The calls of the resolver.  resolved_path is the Cow of the code: its   *)
(* path, and whether it is Owned (replaced at least once) or Borrowed.     *)
(***************************************************************************)
CallStructIsTransparent(path) ==
    /\ Idle
    /\ op' = "struct_is_transparent"
    /\ arg' = path
    /\ ret' = <<struct_is_transparent(path)>>
    /\ pc' = "returned"
    /\ UNCHANGED <<inputs, struct_fileds_memo, fs, out, resolved_path, new_file_contents, history>>

CallStructExists(path) ==
    /\ Idle
    /\ op' = "struct_exists"
    /\ arg' = path
    /\ resolved_path' = [path |-> path, owned |-> FALSE]
    /\ ret' = <<>>
    /\ pc' = "resolving"
    /\ UNCHANGED <<inputs, struct_fileds_memo, fs, out, new_file_contents, history>>

\* an iteration of the loop of resolved_struct_path that finds an alias
ResolveStep ==
    /\ pc = "resolving"
    /\ found(resolved_path.path) # None
    /\ resolved_path' = [path |-> found(resolved_path.path), owned |-> TRUE]
    /\ UNCHANGED <<inputs, struct_fileds_memo, fs, out, pc, op, arg, new_file_contents, ret, history>>

\* the loop breaks, and struct_exists looks the resolved path up
ReturnStructExists ==
    /\ pc = "resolving"
    /\ op = "struct_exists"
    /\ found(resolved_path.path) = None
    /\ ret' = <<struct_exists_at(resolved_path.path)>>
    /\ pc' = "returned"
    /\ UNCHANGED <<inputs, struct_fileds_memo, fs, out, op, arg, resolved_path, new_file_contents, history>>

\* struct_field_names: a memo hit returns at once, a miss resolves the path
CallStructFieldNames(path) ==
    /\ Idle
    /\ op' = "struct_field_names"
    /\ arg' = path
    /\ IF struct_fileds_memo[path] # <<>>
       THEN /\ ret' = struct_fileds_memo[path]
            /\ pc' = "returned"
            /\ UNCHANGED resolved_path
       ELSE /\ ret' = <<>>
            /\ pc' = "resolving"
            /\ resolved_path' = [path |-> path, owned |-> FALSE]
    /\ UNCHANGED <<inputs, struct_fileds_memo, fs, out, new_file_contents, history>>

\* a memo that is kept under the path of the call only
memos_insert_path_only(path, resolved, fields) ==
    [struct_fileds_memo EXCEPT ![path] = <<fields>>]

\* memos.insert(path.clone(), ..) and, if let Cow::Owned(p) = resolved_path,
\* memos.insert(p, ..)
memos_insert(path, resolved, fields) ==
    LET memos == [struct_fileds_memo EXCEPT ![path] = <<fields>>]
    IN IF resolved.owned
       THEN [memos EXCEPT ![resolved.path] = <<fields>>]
       ELSE memos

\* the loop breaks: merge the fields, memoize under the argument and, when
\* the path was replaced, under the resolved path
ReturnStructFieldNames ==
    /\ pc = "resolving"
    /\ op = "struct_field_names"
    /\ found(resolved_path.path) = None
    /\ LET fields == merged_field_names(resolved_path.path)
       IN /\ struct_fileds_memo' = memos_insert(arg, resolved_path, fields)
          /\ ret' = <<fields>>
    /\ pc' = "returned"
    /\ UNCHANGED <<inputs, fs, out, op, arg, resolved_path, new_file_contents, history>>

(***************************************************************************)
(* The calls on the file system.                                           *)
(***************************************************************************)
\* the file system after create_dir_all(dir) where dir does not exist
with_dir(dir) == [fs EXCEPT !.dirs = @ \cup {dir}]

Called(name, path) == [op |-> name, path |-> path, before |-> fs, ret |-> <<>>]

\* the whole of generate_depfile; every unwrap() that fails panics there
GenerateDepfile(header_path, depfile_path) ==
    /\ Idle
    /\ Len(history) < MaxCalls
    /\ op' = "generate_depfile"
    /\ arg' = depfile_path
    /\ history' = Append(history, Called("generate_depfile", depfile_path))
    /\ ret' = <<>>
    /\ IF \/ canonicalize(header_path) = <<>>
          \/ \E i \in DOMAIN depfile_inputs : canonicalize(depfile_inputs[i]) = <<>>
          \/ fs.files[depfile_path].kind = "dir"
       THEN /\ fs' = with_dir(parent(depfile_path))
            /\ pc' = "panicked"
       ELSE /\ fs' = [with_dir(parent(depfile_path)) EXCEPT
                         !.files[depfile_path] = File(depfile_contents(header_path))]
            /\ pc' = "returned"
    /\ UNCHANGED <<inputs, struct_fileds_memo, out, resolved_path, new_file_contents>>

\* the call in progress, as history records it
ThisCall == history[Len(history)]

Returned(value) == [history EXCEPT ![Len(history)].ret = <<value>>]

\* a comparison that always finds a difference
contents_differ_always(old_file_contents, new) == TRUE

\* old_file_contents != new_file_contents
contents_differ(old_file_contents, new) == old_file_contents # new

\* write_to_file up to the point where it starts to render: the no-op
\* return, or the destination created (when it is not a file) and the
\* render streamed into it, or the render buffered (when it is a file)
WriteToFile(path) ==
    /\ Idle
    /\ Len(history) < MaxCalls
    /\ op' = "write_to_file"
    /\ arg' = path
    /\ new_file_contents' = <<>>
    /\ IF noop
       THEN /\ ret' = <<FALSE>>
            /\ pc' = "returned"
            /\ history' = Append(history, [op |-> "write_to_file", path |-> path, before |-> fs, ret |-> <<FALSE>>])
            /\ UNCHANGED fs
       ELSE /\ ret' = <<>>
            /\ history' = Append(history, Called("write_to_file", path))
            /\ IF ~is_file(path)
               THEN IF fs.files[path].kind = "dir"
                    THEN /\ fs' = with_dir(parent(path))
                         /\ pc' = "panicked"
                    ELSE /\ fs' = [with_dir(parent(path)) EXCEPT !.files[path] = File(<<>>)]
                         /\ pc' = "streaming"
               ELSE /\ pc' = "buffering"
                    /\ UNCHANGED fs
    /\ UNCHANGED <<inputs, struct_fileds_memo, out, resolved_path>>

\* self.write(File::create(path)): the next statement goes to the file
StreamStep ==
    /\ pc = "streaming"
    /\ Len(fs.files[arg].data) < Len(write_output)
    /\ fs' = [fs EXCEPT !.files[arg].data = Append(@, write_output[Len(@) + 1])]
    /\ UNCHANGED <<inputs, struct_fileds_memo, out, pc, op, arg, resolved_path,
                   new_file_contents, ret, history>>

\* self.write(&mut new_file_contents): the next statement goes to the buffer
BufferStep ==
    /\ pc = "buffering"
    /\ Len(new_file_contents) < Len(write_output)
    /\ new_file_contents' = Append(new_file_contents, write_output[Len(new_file_contents) + 1])
    /\ UNCHANGED <<inputs, struct_fileds_memo, fs, out, pc, op, arg, resolved_path, ret, history>>

\* the render fails before its last statement: a writer panics
RenderPanic ==
    /\ \/ pc = "streaming" /\ Len(fs.files[arg].data) < Len(write_output)
       \/ pc = "buffering" /\ Len(new_file_contents) < Len(write_output)
    /\ pc' = "render_panicked"
    /\ UNCHANGED <<inputs, struct_fileds_memo, fs, out, op, arg, resolved_path,
                   new_file_contents, ret, history>>

ReturnStreamed ==
    /\ pc = "streaming"
    /\ Len(fs.files[arg].data) = Len(write_output)
    /\ ret' = <<TRUE>>
    /\ pc' = "returned"
    /\ history' = Returned(TRUE)
    /\ UNCHANGED <<inputs, struct_fileds_memo, fs, out, op, arg, resolved_path, new_file_contents>>

\* read the old contents and compare; File::create(&path) when they differ
CompareBuffered ==
    /\ pc = "buffering"
    /\ Len(new_file_contents) = Len(write_output)
    /\ IF contents_differ(fs.files[arg].data, new_file_contents)
       THEN /\ fs' = [fs EXCEPT !.files[arg] = File(<<>>)]
            /\ pc' = "writing"
            /\ UNCHANGED <<ret, history>>
       ELSE /\ ret' = <<FALSE>>
            /\ pc' = "returned"
            /\ history' = Returned(FALSE)
            /\ UNCHANGED fs
    /\ UNCHANGED <<inputs, struct_fileds_memo, out, op, arg, resolved_path, new_file_contents>>

\* new_file.write_all(&new_file_contents)
WriteAll ==
    /\ pc = "writing"
    /\ fs' = [fs EXCEPT !.files[arg] = File(new_file_contents)]
    /\ ret' = <<TRUE>>
    /\ pc' = "returned"
    /\ history' = Returned(TRUE)
    /\ UNCHANGED <<inputs, struct_fileds_memo, out, op, arg, resolved_path, new_file_contents>>

(***************************************************************************)
(* The calls that render into a sink.  write, write_headers and            *)
(* open_namespaces are given a fresh sink; close_namespaces is given the   *)
(* sink open_namespaces left.  arg is the sink as it was handed over.      *)
(***************************************************************************)
Write ==
    /\ Idle
    /\ op' = "write"
    /\ arg' = <<>>
    /\ out' = write_output
    /\ ret' = <<>>
    /\ pc' = "returned"
    /\ UNCHANGED <<inputs, struct_fileds_memo, fs, resolved_path, new_file_contents, history>>

WriteHeaders ==
    /\ Idle
    /\ op' = "write_headers"
    /\ arg' = <<>>
    /\ out' = write_headers
    /\ ret' = <<>>
    /\ pc' = "returned"
    /\ UNCHANGED <<inputs, struct_fileds_memo, fs, resolved_path, new_file_contents, history>>

OpenNamespaces ==
    /\ Idle
    /\ op' = "open_namespaces"
    /\ arg' = <<>>
    /\ out' = open_namespaces
    /\ ret' = <<>>
    /\ pc' = "returned"
    /\ UNCHANGED <<inputs, struct_fileds_memo, fs, resolved_path, new_file_contents, history>>

CloseNamespaces ==
    /\ pc = "returned"
    /\ op = "open_namespaces"
    /\ op' = "close_namespaces"
    /\ arg' = out
    /\ out' = out \o close_namespaces
    /\ ret' = <<>>
    /\ pc' = "returned"
    /\ UNCHANGED <<inputs, struct_fileds_memo, fs, resolved_path, new_file_contents, history>>

(***************************************************************************)
(* The body specification: every dialect and every choice of at most       *)
(* MaxDecls constants, items, globals and functions together, rendered by  *)
(* write and write_headers.                                                *)
(***************************************************************************)
Constants(n) ==
    {[i \in 1..n |-> [id |-> i, uses_only_primitive_types |-> b[i]]] :
        b \in [1..n -> BOOLEAN]}

NoExport == {<<>>, <<FALSE>>, <<TRUE>>}

Items(n) ==
    {[i \in 1..n |-> [id |-> i, kind |-> k[i].kind, no_export |-> k[i].no_export]] :
        k \in [1..n -> [kind : ItemKinds, no_export : NoExport]]}

Ids(n) == [i \in 1..n |-> [id |-> i]]

BodyConfig(d) ==
    [DefaultConfig EXCEPT !.language = d.language,
                          !.cpp_compatible_c = d.cpp_compatible_c,
                          !.namespace = <<"ns">>,
                          !.include_guard = IF d.language = "Cython" THEN <<>>
                                            ELSE <<"GUARD">>,
                          !.pragma_once = TRUE]

InitBody ==
    /\ \E d \in Dialects : config = BodyConfig(d)
    /\ \E nc \in 0..MaxDecls :
         \E ni \in 0..(MaxDecls - nc) :
           \E ng \in 0..(MaxDecls - nc - ni) :
             \E nf \in 0..(MaxDecls - nc - ni - ng) :
               /\ constants \in Constants(nc)
               /\ items \in Items(ni)
               /\ globals = Ids(ng)
               /\ functions = Ids(nf)
    /\ typedef_map = NoTypedefs
    /\ struct_map = NoStructs
    /\ struct_fileds_memo = EmptyMemo
    /\ source_files = <<>>
    /\ noop = FALSE
    /\ package_version = "0.1.0"
    /\ fs = EmptyFs
    /\ out = <<>>
    /\ InitCall

NextBody == Write \/ WriteHeaders

SpecBody == InitBody /\ [][NextBody]_vars

(***************************************************************************)
(* The namespace specification: every dialect, with and without a primary  *)
(* namespace and with up to MaxNamespaces extra namespaces, under          *)
(* open_namespaces followed by close_namespaces.                           *)
(***************************************************************************)
NamespaceNames == {"a", "b"}

InitNamespaces ==
    /\ \E d \in Dialects :
         \E namespace \in {<<>>} \cup {<<n>> : n \in NamespaceNames} :
           \E namespaces \in {<<>>} \cup {<<l>> : l \in SeqsUpTo(NamespaceNames, MaxNamespaces)} :
             config = [DefaultConfig EXCEPT !.language = d.language,
                                            !.cpp_compatible_c = d.cpp_compatible_c,
                                            !.namespace = namespace,
                                            !.namespaces = namespaces]
    /\ constants = <<>>
    /\ items = <<>>
    /\ globals = <<>>
    /\ functions = <<>>
    /\ typedef_map = NoTypedefs
    /\ struct_map = NoStructs
    /\ struct_fileds_memo = EmptyMemo
    /\ source_files = <<>>
    /\ noop = FALSE
    /\ package_version = "0.1.0"
    /\ fs = EmptyFs
    /\ out = <<>>
    /\ InitCall

NextNamespaces == OpenNamespaces \/ CloseNamespaces

SpecNamespaces == InitNamespaces /\ [][NextNamespaces]_vars

(***************************************************************************)
(* The alias specification: every typedef map of at most MaxTypedefs       *)
(* typedefs (alias cycles included) and every struct map of at most        *)
(* MaxStructs structs, under any sequence of struct_is_transparent and     *)
(* struct_exists calls.                                                    *)
(***************************************************************************)
TypedefMaps ==
    {m \in [Paths -> SeqsUpTo(Typedefs, MaxTypedefs)] : SumLen(m, Paths) <= MaxTypedefs}

AliasStructs == {Struct(t, <<"x">>) : t \in BOOLEAN}

AliasStructMaps ==
    {m \in [Paths -> SeqsUpTo(AliasStructs, MaxStructs)] : SumLen(m, Paths) <= MaxStructs}

InitAlias ==
    /\ typedef_map \in TypedefMaps
    /\ struct_map \in AliasStructMaps
    /\ struct_fileds_memo = EmptyMemo
    /\ config = DefaultConfig
    /\ globals = <<>>
    /\ constants = <<>>
    /\ items = <<>>
    /\ functions = <<>>
    /\ source_files = <<>>
    /\ noop = FALSE
    /\ package_version = "0.1.0"
    /\ fs = EmptyFs
    /\ out = <<>>
    /\ InitCall

NextAlias ==
    \/ \E path \in Paths : CallStructIsTransparent(path)
    \/ \E path \in Paths : CallStructExists(path)
    \/ ResolveStep
    \/ ReturnStructExists

SpecAlias == InitAlias /\ [][NextAlias]_vars

(***************************************************************************)
(* The existence specification: the same typedef maps, structs that differ *)
(* in nothing struct_exists reads, and struct_exists the only call.        *)
(***************************************************************************)
ExistsStructMaps ==
    {m \in [Paths -> SeqsUpTo({Struct(FALSE, <<"x">>)}, MaxStructs)] :
        SumLen(m, Paths) <= MaxStructs}

InitExists ==
    /\ typedef_map \in TypedefMaps
    /\ struct_map \in ExistsStructMaps
    /\ struct_fileds_memo = EmptyMemo
    /\ config = DefaultConfig
    /\ globals = <<>>
    /\ constants = <<>>
    /\ items = <<>>
    /\ functions = <<>>
    /\ source_files = <<>>
    /\ noop = FALSE
    /\ package_version = "0.1.0"
    /\ fs = EmptyFs
    /\ out = <<>>
    /\ InitCall

NextExists ==
    \/ \E path \in Paths : CallStructExists(path)
    \/ ResolveStep
    \/ ReturnStructExists

SpecExists == InitExists /\ [][NextExists]_vars

\* the loop of resolved_struct_path runs on one thread, which keeps running
FairSpecExists == SpecExists /\ WF_vars(ResolveStep) /\ WF_vars(ReturnStructExists)

(***************************************************************************)
(* The field-name specification: up to MaxInst instantiations of a struct  *)
(* bound to path C, with every field list, behind the typedef layouts      *)
(* below, under any sequence of struct_field_names calls.                  *)
(***************************************************************************)
Alias(p) == <<[aliased |-> TypePath(p)]>>

FieldsTypedefMaps ==
    { NoTypedefs,
      [NoTypedefs EXCEPT !["A"] = Alias("B"), !["B"] = Alias("C")],
      [NoTypedefs EXCEPT !["A"] = Alias("C"), !["B"] = <<[aliased |-> TypeOther]>>],
      [NoTypedefs EXCEPT !["A"] = Alias("B") \o Alias("C")],
      [NoTypedefs EXCEPT !["C"] = Alias("B")] }

FieldStructs == {Struct(FALSE, f) : f \in FieldLists}

InitFields ==
    /\ typedef_map \in FieldsTypedefMaps
    /\ \E insts \in SeqsUpTo(FieldStructs, MaxInst) :
           struct_map = [NoStructs EXCEPT !["C"] = insts]
    /\ struct_fileds_memo = EmptyMemo
    /\ config = DefaultConfig
    /\ globals = <<>>
    /\ constants = <<>>
    /\ items = <<>>
    /\ functions = <<>>
    /\ source_files = <<>>
    /\ noop = FALSE
    /\ package_version = "0.1.0"
    /\ fs = EmptyFs
    /\ out = <<>>
    /\ InitCall

NextFields ==
    \/ \E path \in Paths : CallStructFieldNames(path)
    \/ ResolveStep
    \/ ReturnStructFieldNames

SpecFields == InitFields /\ [][NextFields]_vars

(***************************************************************************)
(* The memo specification: the typedef maps of the field specification and *)
(* one with an alias cycle; structs with fields of their own at the alias  *)
(* paths A and B, and none, one or two instantiations at C; any sequence   *)
(* of struct_field_names calls on the one engine, whose memo they share.   *)
(***************************************************************************)
MemoTypedefMaps ==
    FieldsTypedefMaps \cup {[NoTypedefs EXCEPT !["A"] = Alias("B"), !["B"] = Alias("A")]}

MemoStructMaps ==
    {[A |-> a, B |-> b, C |-> c] :
        a \in {<<>>, <<Struct(FALSE, <<"z">>)>>},
        b \in {<<>>, <<Struct(FALSE, <<"y", "x">>)>>},
        c \in {<<>>, <<Struct(FALSE, <<"x", "y">>)>>,
               <<Struct(FALSE, <<"x", "y">>), Struct(FALSE, <<"x", "z", "y">>)>>}}

InitMemo ==
    /\ typedef_map \in MemoTypedefMaps
    /\ struct_map \in MemoStructMaps
    /\ struct_fileds_memo = EmptyMemo
    /\ config = DefaultConfig
    /\ globals = <<>>
    /\ constants = <<>>
    /\ items = <<>>
    /\ functions = <<>>
    /\ source_files = <<>>
    /\ noop = FALSE
    /\ package_version = "0.1.0"
    /\ fs = EmptyFs
    /\ out = <<>>
    /\ InitCall

NextMemo ==
    \/ \E path \in Paths : CallStructFieldNames(path)
    \/ ResolveStep
    \/ ReturnStructFieldNames

SpecMemo == InitMemo /\ [][NextMemo]_vars

(***************************************************************************)
(* The dependency-file specification: up to MaxSources source files, with  *)
(* or without a configuration file, any canonical path for each, at most   *)
(* one of them missing, the header written or not, the directory of the    *)
(* dependency file there or not.                                           *)
(***************************************************************************)
InitDep ==
    /\ source_files \in SeqsUpTo(SourcePaths, MaxSources)
    /\ \E config_path \in {<<>>, <<ConfigPath>>} :
           config = [DefaultConfig EXCEPT !.config_path = config_path]
    /\ \E canon \in [SourcePaths \cup {ConfigPath} -> CanonPaths] :
         \E missing \in {{}} \cup {{p} : p \in SourcePaths \cup {ConfigPath, HeaderPath}} :
           \E dirs \in {{"out", "src"}, {"out", "src", "dep"}} :
             fs = [dirs |-> dirs,
                   files |-> [p \in FilePaths |->
                                 IF p \in missing \/ p = DepfilePath THEN Absent
                                 ELSE File(<<>>)],
                   canon |-> [p \in FilePaths |->
                                 IF p \in DOMAIN canon THEN canon[p] ELSE CanonFixed[p]]]
    /\ noop = FALSE
    /\ constants = <<>>
    /\ items = <<>>
    /\ globals = <<>>
    /\ functions = <<>>
    /\ typedef_map = NoTypedefs
    /\ struct_map = NoStructs
    /\ struct_fileds_memo = EmptyMemo
    /\ package_version = "0.1.0"
    /\ out = <<>>
    /\ InitCall

NextDep == GenerateDepfile(HeaderPath, DepfilePath)

SpecDep == InitDep /\ [][NextDep]_vars

(***************************************************************************)
(* The write specification: an engine with one constant, one item and one  *)
(* function in every dialect, no-op or not; the header absent, a           *)
(* directory, or a file that holds the rendered output, stale output or    *)
(* nothing; up to MaxCalls write_to_file and generate_depfile calls, and   *)
(* write and write_headers calls, in any order.                            *)
(***************************************************************************)
StaleOutput == <<Line("stale")>>

InitWrite ==
    /\ noop \in BOOLEAN
    /\ \E d \in Dialects : config = [BodyConfig(d) EXCEPT !.no_includes = TRUE]
    /\ constants \in Constants(1)
    /\ items = <<[id |-> 1, kind |-> "Struct", no_export |-> <<>>]>>
    /\ globals = <<>>
    /\ functions = Ids(1)
    /\ source_files = <<"src/lib.rs">>
    /\ package_version = "0.1.0"
    /\ typedef_map = NoTypedefs
    /\ struct_map = NoStructs
    /\ struct_fileds_memo = EmptyMemo
    /\ \E header \in {Absent, Directory, File(<<>>), File(StaleOutput)}
                         \cup (IF noop THEN {} ELSE {File(write_output)}) :
         \E dirs \in {{"src"}, {"src", "out"}, {"src", "dep"}, {"src", "out", "dep"}} :
           /\ header # Absent => "out" \in dirs
           /\ fs = [dirs |-> dirs,
                    files |-> [p \in FilePaths |->
                                  CASE p = HeaderPath -> header
                                    [] p = DepfilePath -> Absent
                                    [] OTHER -> File(<<>>)],
                    canon |-> CanonFixed]
    /\ out = <<>>
    /\ InitCall

NextWrite ==
    \/ WriteToFile(HeaderPath)
    \/ StreamStep
    \/ BufferStep
    \/ RenderPanic
    \/ ReturnStreamed
    \/ CompareBuffered
    \/ WriteAll
    \/ GenerateDepfile(HeaderPath, DepfilePath)
    \/ Write
    \/ WriteHeaders

SpecWrite == InitWrite /\ [][NextWrite]_vars

(***************************************************************************)
(* The alias relation of the typedef map, read off the map itself.         *)
(***************************************************************************)
AliasesOf(p) ==
    {typedef_map[p][i].aliased.path :
        i \in {j \in 1..Len(typedef_map[p]) : typedef_map[p][j].aliased.tag = "Path"}}

RECURSIVE ReachFrom(_, _)
ReachFrom(S, n) ==
    IF n = 0 THEN S
    ELSE ReachFrom(S \cup UNION {AliasesOf(p) : p \in S}, n - 1)

\* the paths an alias chain from p passes through, p included
Reach(p) == ReachFrom({p}, Cardinality(Paths))

\* no alias cycle: no path is reached from one of its own aliases
Acyclic == \A p \in Paths : \A q \in AliasesOf(p) : p \notin Reach(q)

\* a -> b -> c: a aliases b only, b aliases c only, c aliases no named type
IsChain(a, b, c) ==
    /\ a # b /\ b # c /\ a # c
    /\ AliasesOf(a) = {b}
    /\ AliasesOf(b) = {c}
    /\ AliasesOf(c) = {}

AnyTransparentAt(p) == \E i \in 1..Len(struct_map[p]) : struct_map[p][i].is_transparent

(***************************************************************************)
(* C1: for an alias chain A -> B -> C with C bound to one or more structs, *)
(* struct_is_transparent(A) returns what struct_is_transparent(C) returns: *)
(* true iff a struct at the canonical path C is marked transparent.        *)
(***************************************************************************)
C1_TransparentThroughAlias ==
    \A b, c \in Paths :
        (/\ pc = "returned"
         /\ op = "struct_is_transparent"
         /\ IsChain(arg, b, c)
         /\ struct_map[c] # <<>>)
        => ret = <<AnyTransparentAt(c)>>

(***************************************************************************)
(* C8: on a typedef map without an alias cycle resolved_struct_path        *)
(* terminates, at a path reached by the alias chain of the argument where  *)
(* no typedef aliases a bare named type; for a chain A -> B -> C it is C,  *)
(* and struct_exists returns whether a struct is bound there: true when C  *)
(* has a struct, false (not a failure) when the resolved path has none.    *)
(***************************************************************************)
C8_ResolvedAtEndOfChain ==
    (pc = "returned" /\ op = "struct_exists") =>
        /\ resolved_path.path \in Reach(arg)
        /\ AliasesOf(resolved_path.path) = {}
        /\ ret = <<struct_map[resolved_path.path] # <<>>>>
        /\ \A b, c \in Paths : IsChain(arg, b, c) => resolved_path.path = c

C8_Terminates == (Acyclic /\ pc = "resolving") ~> (pc = "returned")

C8_ResolveTerminatesAtChainEnd == []C8_ResolvedAtEndOfChain /\ C8_Terminates

C8_Witness_ChainToStruct ==
    /\ pc = "returned"
    /\ op = "struct_exists"
    /\ \E b, c \in Paths : IsChain(arg, b, c) /\ struct_map[c] # <<>> /\ resolved_path.path = c
    /\ ret = <<TRUE>>

(***************************************************************************)
(* The canonical path of a path, read off the typedef map: follow, from    *)
(* each path, the last typedef that aliases a bare named type.             *)
(***************************************************************************)
RECURSIVE LastAlias(_, _)
LastAlias(tds, n) ==
    IF n = 0 THEN None
    ELSE IF tds[n].aliased.tag = "Path" THEN tds[n].aliased.path
    ELSE LastAlias(tds, n - 1)

RECURSIVE CanonicalPath(_, _)
CanonicalPath(p, fuel) ==
    IF fuel = 0 \/ LastAlias(typedef_map[p], Len(typedef_map[p])) = None THEN p
    ELSE CanonicalPath(LastAlias(typedef_map[p], Len(typedef_map[p])), fuel - 1)

IndexOf(s, e) == CHOOSE i \in 1..Len(s) : s[i] = e

Elems(s) == {s[i] : i \in 1..Len(s)}

(***************************************************************************)
(* C7: struct_field_names returns the cursor merge of the field lists of   *)
(* the instantiations at the canonical path: every field name of every     *)
(* instantiation exactly once and nothing else, the first instantiation's  *)
(* fields in their order, a field new in the second instantiation right    *)
(* after its predecessor there, and [x,y] then [x,z,y] merged to [x,z,y].  *)
(***************************************************************************)
C7_FieldNamesCursorMerge ==
    (pc = "returned" /\ op = "struct_field_names") =>
        LET insts == struct_map[CanonicalPath(arg, Cardinality(Paths))]
            first == insts[1].fields
            second == insts[2].fields
            names == ret[1]
        IN /\ \A i, j \in 1..Len(names) : names[i] = names[j] => i = j
           /\ Elems(names) = UNION {Elems(insts[k].fields) : k \in 1..Len(insts)}
           /\ Len(insts) >= 1 =>
                 \A i, j \in 1..Len(first) :
                     i < j => IndexOf(names, first[i]) < IndexOf(names, first[j])
           /\ Len(insts) = 2 =>
                 \A i \in 1..Len(second) :
                     second[i] \notin Elems(first) =>
                         IF i = 1 THEN names[1] = second[1]
                         ELSE IndexOf(names, second[i]) = IndexOf(names, second[i - 1]) + 1
           /\ (Len(insts) = 2 /\ first = <<"x", "y">> /\ second = <<"x", "z", "y">>)
                 => names = <<"x", "z", "y">>

C7_Witness_MergeThroughAlias ==
    /\ pc = "returned"
    /\ op = "struct_field_names"
    /\ arg = "A"
    /\ CanonicalPath(arg, Cardinality(Paths)) = "C"
    /\ Len(struct_map["C"]) = 2
    /\ struct_map["C"][1].fields = <<"x", "y">>
    /\ struct_map["C"][2].fields = <<"x", "z", "y">>
    /\ ret = << <<"x", "z", "y">> >>

(***************************************************************************)
(* Reading the sink: the declaration tokens, and how often a token occurs. *)
(***************************************************************************)
IsDecl(tok) == tok[1] \in {"constant", "global", "function"} \cup ItemKinds

Decls(toks) == SelectSeq(toks, IsDecl)

Count(toks, tok) == Cardinality({i \in 1..Len(toks) : toks[i] = tok})

\* the group of a declaration token: primitive-only constants, items,
\* remaining constants, globals, functions
Group(tok) ==
    CASE tok[1] = "constant" ->
           IF constants[tok[3]].uses_only_primitive_types THEN 1 ELSE 3
      [] tok[1] \in ItemKinds -> 2
      [] tok[1] = "global" -> 4
      [] tok[1] = "function" -> 5

(***************************************************************************)
(* C5: write emits the constants that use only primitive types, then the   *)
(* items, then the remaining constants, then the globals, then the         *)
(* functions, each group in input order; every constant, global and        *)
(* function exactly once, every item exactly once unless its no-export     *)
(* annotation is true, and then never.                                     *)
(***************************************************************************)
C5_EmissionOrder ==
    (pc = "returned" /\ op = "write" /\ ~noop) =>
        LET d == Decls(out)
        IN /\ \A i, j \in 1..Len(d) :
                  i < j => \/ Group(d[i]) < Group(d[j])
                           \/ Group(d[i]) = Group(d[j]) /\ d[i][3] < d[j][3]
           /\ \A k \in 1..Len(constants) : Count(d, Decl("constant", k)) = 1
           /\ \A k \in 1..Len(globals) : Count(d, Decl("global", k)) = 1
           /\ \A k \in 1..Len(functions) : Count(d, Decl("function", k)) = 1
           /\ \A k \in 1..Len(items) :
                  Count(d, Decl(items[k].kind, k)) =
                      IF items[k].no_export = <<TRUE>> THEN 0 ELSE 1
           /\ Len(d) = Len(constants) + Len(globals) + Len(functions)
                       + Cardinality({k \in 1..Len(items) : items[k].no_export # <<TRUE>>})

C5_Witness_AllGroups ==
    /\ pc = "returned"
    /\ op = "write"
    /\ ~noop
    /\ Len(constants) = 2
    /\ ~constants[1].uses_only_primitive_types
    /\ constants[2].uses_only_primitive_types
    /\ Len(items) = 1
    /\ Decls(out) = <<Decl("constant", 2), Decl(items[1].kind, 1), Decl("constant", 1)>>

(***************************************************************************)
(* C6: in the Cython dialect write emits exactly one 'pass' whenever it    *)
(* writes no constant, item, global or function declaration (also when     *)
(* every item present is export-suppressed), and no 'pass' when it writes  *)
(* at least one declaration.                                               *)
(***************************************************************************)
C6_PassIffBodyEmpty ==
    (pc = "returned" /\ op = "write" /\ ~noop /\ config.language = "Cython") =>
        Count(out, Line("pass")) = IF Decls(out) = <<>> THEN 1 ELSE 0

(***************************************************************************)
(* C9: outside the Cython dialect close_namespaces emits one closing line  *)
(* per namespace of the resolved list, in the reverse of the order of the  *)
(* opening lines of open_namespaces, as many as those, inside the          *)
(* '#ifdef __cplusplus' / '#endif' guard iff the opening lines are; with   *)
(* an empty resolved list both emit nothing.                               *)
(***************************************************************************)
\* the primary namespace followed by the extra namespaces; none in plain C
ResolvedNamespaces ==
    IF config.language = "C" /\ ~config.cpp_compatible_c THEN <<>>
    ELSE config.namespace \o (IF config.namespaces = <<>> THEN <<>> ELSE config.namespaces[1])

Texts(toks, kind) ==
    LET hits == SelectSeq(toks, LAMBDA tok : tok[1] = kind)
    IN [i \in DOMAIN hits |-> hits[i][2]]

Guarded(toks) ==
    /\ Len(toks) >= 2
    /\ toks[1] = Line("#ifdef __cplusplus")
    /\ toks[Len(toks)] = Line("#endif // __cplusplus")

\* the tokens between the guard lines, or all of them without a guard
Unguarded(toks) == IF Guarded(toks) THEN SubSeq(toks, 2, Len(toks) - 1) ELSE toks

C9_CloseMirrorsOpen ==
    (pc = "returned" /\ op = "close_namespaces" /\ config.language # "Cython") =>
        LET opened == arg
            closed == SubSeq(out, Len(arg) + 1, Len(out))
        IN /\ Texts(opened, "namespace {") = ResolvedNamespaces
           /\ Texts(closed, "} // namespace") = Reverse(Texts(opened, "namespace {"))
           /\ Len(Unguarded(opened)) = Len(ResolvedNamespaces)
           /\ Len(Unguarded(closed)) = Len(ResolvedNamespaces)
           /\ Guarded(closed) <=> Guarded(opened)
           /\ ResolvedNamespaces = <<>> => opened = <<>> /\ closed = <<>>

C9_Witness_NestedGuarded ==
    /\ pc = "returned"
    /\ op = "close_namespaces"
    /\ config.cpp_compatible_c
    /\ arg = <<Line("#ifdef __cplusplus"), Tok("namespace {", "a"), Tok("namespace {", "b"),
               Tok("namespace {", "a"), Line("#endif // __cplusplus")>>
    /\ SubSeq(out, Len(arg) + 1, Len(out)) =
           <<Line("#ifdef __cplusplus"), Tok("} // namespace", "a"), Tok("} // namespace", "b"),
             Tok("} // namespace", "a"), Line("#endif // __cplusplus")>>

(***************************************************************************)
(* Reading a dependency file: its lines, and a path back from its escaped  *)
(* form.                                                                   *)
(***************************************************************************)
RECURSIVE SplitLines(_, _, _)
SplitLines(text, line, done) ==
    IF text = <<>> THEN (IF line = <<>> THEN done ELSE Append(done, line))
    ELSE IF Head(text) = "\n" THEN SplitLines(Tail(text), <<>>, Append(done, line))
    ELSE SplitLines(Tail(text), Append(line, Head(text)), done)

RECURSIVE Unescape(_)
Unescape(e) ==
    IF e = <<>> THEN <<>>
    ELSE IF Len(e) >= 2 /\ e[1] = "\\" /\ e[2] = " "
         THEN <<" ">> \o Unescape(SubSeq(e, 3, Len(e)))
    ELSE <<Head(e)>> \o Unescape(Tail(e))

NoBareSpace(e) == \A i \in 1..Len(e) : e[i] = " " => (i > 1 /\ e[i - 1] = "\\")

\* s is t, or comes before t in the lexicographic order of the characters
LexLeq(s, t) ==
    \/ Len(s) <= Len(t) /\ SubSeq(t, 1, Len(s)) = s
    \/ \E i \in 1..Len(s) :
          /\ i <= Len(t)
          /\ SubSeq(s, 1, i - 1) = SubSeq(t, 1, i - 1)
          /\ Code(s[i]) < Code(t[i])

\* the line continuation that ends every line of the rule but the last
Continued(k, n) == IF k < n THEN <<" ", "\\">> ELSE <<>>

\* the dependency file is one rule for the header with one continuation
\* line for each of deps, canonicalized, escaped and in sorted order
DepfileRule(deps) ==
    LET text == fs.files[DepfilePath].data
        lines == SplitLines(text, <<>>, <<>>)
        n == Len(deps)
        target == SubSeq(lines[1], 1, Len(lines[1]) - 1 - Len(Continued(0, n)))
        dep(k) == SubSeq(lines[k + 1], 5, Len(lines[k + 1]) - Len(Continued(k, n)))
    IN /\ fs.files[DepfilePath].kind = "file"
       /\ Len(text) >= 2
       /\ text[Len(text)] = "\n"
       /\ text[Len(text) - 1] # "\n"
       /\ Len(lines) = n + 1
       /\ lines[1] = target \o <<":">> \o Continued(0, n)
       /\ NoBareSpace(target)
       /\ Unescape(target) = fs.canon[HeaderPath]
       /\ \A k \in 1..n :
             /\ lines[k + 1] = <<" ", " ", " ", " ">> \o dep(k) \o Continued(k, n)
             /\ NoBareSpace(dep(k))
       /\ \A k \in 1..(n - 1) : LexLeq(Unescape(dep(k)), Unescape(dep(k + 1)))
       /\ \E pi \in Permutations(1..n) :
             \A k \in 1..n : Unescape(dep(k)) = fs.canon[deps[pi[k]]]

fs_before == ThisCall.before

InWriteToFile == history # <<>> /\ op = "write_to_file"

\* the rendered output: what write puts into a fresh sink
Expected == write_output

\* C2: a no-op engine never changes the file system and never writes to a
\* sink: no operation creates a directory, creates or truncates a file or
\* panics, write_to_file returns false, and every sink stays as it was
\* handed in; generate_depfile included.
C2_NoopTouchesNothing ==
    noop =>
        /\ pc \notin {"panicked", "render_panicked"}
        /\ \A i \in DOMAIN history :
             /\ history[i].before = fs
             /\ history[i].op = "write_to_file" => history[i].ret = <<FALSE>>
        /\ out = <<>>

\* C3: on an engine that is not a no-op, write_to_file returns true exactly
\* when the destination was not a regular file or held other bytes than the
\* rendered output; on return the destination holds exactly the rendered
\* output; a destination that already holds it is never touched; and of two
\* consecutive calls on an absent destination the first returns true and
\* the second false.
C3_WriteIfChanged ==
    /\ (InWriteToFile /\ ~noop /\ pc = "returned") =>
          /\ ret = <<fs_before.files[arg] # File(Expected)>>
          /\ fs.files[arg] = File(Expected)
    /\ (InWriteToFile /\ ~noop /\ fs_before.files[arg] = File(Expected)) =>
          fs = fs_before
    /\ \A i \in DOMAIN history : \A j \in DOMAIN history :
          ( /\ j = i + 1
            /\ ~noop
            /\ history[i].op = "write_to_file"
            /\ history[j].op = "write_to_file"
            /\ history[i].path = history[j].path
            /\ history[i].before.files[history[i].path] = Absent
            /\ history[j].ret # <<>> )
          => (history[i].ret = <<TRUE>> /\ history[j].ret = <<FALSE>>)

\* the second of two calls on a destination that did not exist has returned,
\* and a call on a stale file has rewritten it
C3_Witness_TrueThenFalse ==
    /\ ~noop
    /\ Len(history) = 2
    /\ history[1].op = "write_to_file"
    /\ history[2].op = "write_to_file"
    /\ history[1].before.files[HeaderPath] = Absent
    /\ history[1].ret = <<TRUE>>
    /\ history[2].ret = <<FALSE>>
    /\ pc = "returned"
    /\ fs.files[HeaderPath] = File(Expected)

\* C4: write_to_file renders the whole output into memory before it touches
\* the destination, in both branches: once the destination has been created,
\* truncated or written the buffer holds the whole rendered output, and a
\* render that fails leaves the destination as it was before the call.
C4_BufferedBeforeTouch ==
    (InWriteToFile /\ ~noop) =>
        /\ fs.files[arg] # fs_before.files[arg] => new_file_contents = Expected
        /\ pc = "render_panicked" => fs.files[arg] = fs_before.files[arg]

(***************************************************************************)
(* C11: after any sequence of struct_field_names calls every memo entry    *)
(* holds, for its key, the merged field ordering of the instantiations at  *)
(* the canonical path of the key; a call that has returned left the result *)
(* under its path and under the canonical path of its path; and it         *)
(* returned what a call on an empty memo returns, the merged ordering at   *)
(* the canonical path, so an alias and its canonical path give the same.   *)
(***************************************************************************)
Canon(p) == CanonicalPath(p, Cardinality(Paths))

C11_MemoConsistent ==
    /\ \A p \in Paths :
          struct_fileds_memo[p] # <<>> =>
              struct_fileds_memo[p] = <<merged_field_names(Canon(p))>>
    /\ (pc = "returned" /\ op = "struct_field_names") =>
          /\ ret = <<merged_field_names(Canon(arg))>>
          /\ struct_fileds_memo[arg] = ret
          /\ struct_fileds_memo[Canon(arg)] = ret

\* a call on the alias A of C has returned the two instantiations of C
\* merged, not the struct bound at A itself, out of a memo that an earlier
\* call on B had written to
C11_Witness_AliasAfterOtherCalls ==
    /\ pc = "returned"
    /\ op = "struct_field_names"
    /\ arg = "A"
    /\ Canon("A") = "C"
    /\ Canon("B") = "B"
    /\ struct_map["A"] # <<>>
    /\ struct_map["B"] # <<>>
    /\ Len(struct_map["C"]) = 2
    /\ struct_fileds_memo["B"] = << <<"y", "x">> >>
    /\ struct_fileds_memo["A"] = << <<"x", "z", "y">> >>
    /\ struct_fileds_memo["C"] = << <<"x", "z", "y">> >>
    /\ ret = << <<"x", "z", "y">> >>

=============================================================================
